---- MODULE Spec2Model ----
(***************************************************************************)
(* Customer segmentation decision-support pipeline.                        *)
(*                                                                         *)
(* The module models run_full_analysis (src/utils/segmentation.py) and the *)
(* part of the Streamlit front end that calls it (src/app.py): the schema  *)
(* check, the clustering/profiling steps, the certainty-factor algebra,    *)
(* the priority scorer and its ranking, forward and backward chaining, the *)
(* hierarchical planner and the choice of the strategy handed to it.       *)
(*                                                                         *)
(* Modelling decisions                                                     *)
(*  - Strings that the code compares after a case conversion (the campaign *)
(*    objective) are sequences of one-character strings, so that           *)
(*    str.lower()/str.upper() are computed character by character.  Texts  *)
(*    that are only compared for equality or used as dictionary keys       *)
(*    (column names, strategy texts, category values) are plain strings.   *)
(*  - Certainty factors are exact rationals [num, den] in lowest terms     *)
(*    with den > 0.  The code uses binary floating point; on the closed    *)
(*    vocabulary of cf_mapping the float results agree with the rationals  *)
(*    up to rounding, and the saturated cases (1.0, -1.0, division by 0)   *)
(*    are exact in both.                                                   *)
(*  - The numerical libraries (StandardScaler, OneHotEncoder, KMeans,      *)
(*    silhouette_score, GaussianNB, matplotlib) are not modelled           *)
(*    numerically.  KMeans is a nondeterministic choice of the set of      *)
(*    cluster ids that received at least one record; groupby/agg is a      *)
(*    nondeterministic choice of one profile row per such id.              *)
(*  - A profile row keeps the columns that the scorer and the rules read.  *)
(*    Their values are integers (fixed points of round(2)).  The rows of   *)
(*    a run are chosen independently of each other and of the dataset      *)
(*    means, which admits more tables than real data can produce (a real   *)
(*    dataset mean lies between the cluster means).                        *)
(*  - The pipeline is explored for cluster counts up to MaxK and for       *)
(*    MaxSample candidate rows per cluster; the scorer, the combination    *)
(*    and the planner are also explored on their own, as single calls      *)
(*    over all of ProfileSpace, CFGrid and StrategyInputs.                 *)
(***************************************************************************)
EXTENDS Integers, Sequences, FiniteSets, TLC

VARIABLES
  pc,                 \* position of the run: see the actions below
  file,               \* the CSV handed to run_full_analysis
  df,                 \* the DataFrame read from it (NoDf before read_csv)
  n_clusters_chosen,  \* argument K
  harga_produk,       \* argument: product price
  tujuan_kampanye,    \* argument: campaign objective (character sequence)
  df_processed,       \* scaled numeric and one-hot encoded columns (None before)
  cluster_profiles,   \* groupby('Cluster').agg(...): cluster id -> profile
  cluster_descriptions,
  prioritas_klaster,  \* ranked list of [Klaster_ID, Skor_Prioritas, CF_Prioritas]
  fc_results,         \* cluster id -> sequence of fired forward rules
  bc_results,         \* sequence of [Klaster_ID, Strategi]
  results,            \* the dict under construction
  hasil,              \* the value returned to the caller (NoResult before)
  raised,             \* exception that left run_full_analysis, or "none"
  view,               \* what app.py rendered from hasil
  fn_call,            \* pure-function harness: the pending call
  fn_ret              \* pure-function harness: its result

vars == <<pc, file, df, n_clusters_chosen, harga_produk, tujuan_kampanye,
          df_processed, cluster_profiles, cluster_descriptions, prioritas_klaster,
          fc_results, bc_results, results, hasil, raised, view,
          fn_call, fn_ret>>

-----------------------------------------------------------------------------
(* Bounds of the model *)

\* Largest cluster count explored (the slider of app.py goes up to 10).
MaxK == 3

\* Number of candidate profile rows a cluster can take in a pipeline run.
MaxSample == 4

-----------------------------------------------------------------------------
(* Strings with case: str.lower() and str.upper() *)

UpperChars ==
  <<"A", "B", "C", "D", "E", "F", "G", "H", "I", "J", "K", "L", "M",
    "N", "O", "P", "Q", "R", "S", "T", "U", "V", "W", "X", "Y", "Z">>

LowerChars ==
  <<"a", "b", "c", "d", "e", "f", "g", "h", "i", "j", "k", "l", "m",
    "n", "o", "p", "q", "r", "s", "t", "u", "v", "w", "x", "y", "z">>

CharLower(c) ==
  IF \E i \in DOMAIN UpperChars : UpperChars[i] = c
  THEN LowerChars[CHOOSE i \in DOMAIN UpperChars : UpperChars[i] = c]
  ELSE c

CharUpper(c) ==
  IF \E i \in DOMAIN LowerChars : LowerChars[i] = c
  THEN UpperChars[CHOOSE i \in DOMAIN LowerChars : LowerChars[i] = c]
  ELSE c

\* str.lower()
lower(s) == [i \in DOMAIN s |-> CharLower(s[i])]

\* str.upper()
upper(s) == [i \in DOMAIN s |-> CharUpper(s[i])]

\* The five options of the objective selectbox, a label outside that set,
\* and a capitalised spelling of one option.
LabelLoyalitas ==
  <<"m", "e", "n", "i", "n", "g", "k", "a", "t", "k", "a", "n",
     " ", "l", "o", "y", "a", "l", "i", "t", "a", "s", " ", "p",
     "e", "l", "a", "n", "g", "g", "a", "n">>

LabelChurn ==
  <<"m", "e", "n", "c", "e", "g", "a", "h", " ", "p", "e", "l",
     "a", "n", "g", "g", "a", "n", " ", "c", "h", "u", "r", "n">>

LabelBaru ==
  <<"m", "e", "n", "d", "a", "p", "a", "t", "k", "a", "n", " ",
     "p", "e", "l", "a", "n", "g", "g", "a", "n", " ", "b", "a",
     "r", "u">>

LabelPenjualan ==
  <<"m", "e", "n", "i", "n", "g", "k", "a", "t", "k", "a", "n",
     " ", "p", "e", "n", "j", "u", "a", "l", "a", "n", " ", "u",
     "m", "u", "m">>

LabelTambahan ==
  <<"m", "e", "n", "j", "u", "a", "l", " ", "p", "r", "o", "d",
     "u", "k", " ", "t", "a", "m", "b", "a", "h", "a", "n">>

LabelLain ==
  <<"r", "i", "s", "e", "t", " ", "p", "a", "s", "a", "r">>

LabelChurnJudul ==
  <<"M", "e", "n", "c", "e", "g", "a", "h", " ", "P", "e", "l",
     "a", "n", "g", "g", "a", "n", " ", "C", "h", "u", "r", "n">>

\* Python's None, for a local that holds either None or a text.
None == "None"

\* An empty dict.
EmptyDict == [k \in {} |-> k]

-----------------------------------------------------------------------------
(* Exact rationals standing for the certainty-factor floats *)

Abs(x) == IF x < 0 THEN -x ELSE x

RECURSIVE Gcd(_, _)
Gcd(a, b) == IF b = 0 THEN a ELSE Gcd(b, a % b)

\* n/d in lowest terms with a positive denominator (d # 0).
Rat(n, d) ==
  LET s == IF d < 0 THEN -1 ELSE 1
      g == Gcd(Abs(n), Abs(d))
  IN  [num |-> (s * n) \div g, den |-> (s * d) \div g]

Zero == Rat(0, 1)
One == Rat(1, 1)
MinusOne == Rat(-1, 1)

\* Marks the absence of a value (a call that raised); not a rational.
NoValue == [num |-> 0, den |-> 0]

RAdd(x, y) == Rat(x.num * y.den + y.num * x.den, x.den * y.den)
RSub(x, y) == Rat(x.num * y.den - y.num * x.den, x.den * y.den)
RMul(x, y) == Rat(x.num * y.num, x.den * y.den)
RDiv(x, y) == Rat(x.num * y.den, x.den * y.num)
RLt(x, y) == x.num * y.den < y.num * x.den
RLe(x, y) == x.num * y.den <= y.num * x.den
RAbs(x) == [num |-> Abs(x.num), den |-> x.den]
RMin(x, y) == IF RLe(x, y) THEN x ELSE y

-----------------------------------------------------------------------------
(* Certainty-factor engine *)

\* cf_mapping: the closed vocabulary of named confidence levels.
cf_mapping ==
  [ sangat_tinggi |-> Rat(9, 10), tinggi |-> Rat(7, 10), sedang |-> Rat(4, 10),
    rendah |-> Rat(2, 10), pasti |-> Rat(10, 10), hampir_pasti |-> Rat(8, 10),
    kemungkinan_besar |-> Rat(6, 10), mungkin |-> Rat(4, 10),
    tidak_tahu |-> Rat(0, 10), mungkin_tidak |-> Rat(-2, 10),
    kemungkinan_besar_tidak |-> Rat(-6, 10),
    hampir_pasti_tidak |-> Rat(-8, 10), pasti_tidak |-> Rat(-10, 10) ]

\* The values of the vocabulary.
CFValues == {cf_mapping[k] : k \in DOMAIN cf_mapping}

\* Outcome of a call: a returned value, or the exception that left it.
Returned(v) == [raised |-> "none", value |-> v]
Raised(e) == [raised |-> e, value |-> NoValue]

\* calculate_cf_combination(cf1, cf2).  The division of the mixed-sign branch
\* raises ZeroDivisionError when its divisor is 0.
calculate_cf_combination(cf1, cf2) ==
  IF RLe(Zero, cf1) /\ RLe(Zero, cf2)
  THEN Returned(RAdd(cf1, RMul(cf2, RSub(One, cf1))))
  ELSE IF RLt(cf1, Zero) /\ RLt(cf2, Zero)
  THEN Returned(RAdd(cf1, RMul(cf2, RAdd(One, cf1))))
  ELSE LET divisor == RSub(One, RMin(RAbs(cf1), RAbs(cf2)))
       IN  IF divisor.num = 0
           THEN Raised("ZeroDivisionError")
           ELSE Returned(RDiv(RAdd(cf1, cf2), divisor))

\* A call whose argument is itself the outcome of a call: an exception in
\* the argument propagates.
CombineAfter(r1, cf2) ==
  IF r1.raised # "none" THEN r1 ELSE calculate_cf_combination(r1.value, cf2)

-----------------------------------------------------------------------------
(* Input data: required columns, profile rows, dataset means *)

fitur_numerik ==
  <<"Age", "Annual_Income", "Total_Spend", "Years_as_Customer",
    "Num_of_Purchases", "Average_Transaction_Amount", "Num_of_Returns",
    "Num_of_Support_Contacts", "Satisfaction_Score", "Last_Purchase_Days_Ago">>

fitur_kategorikal ==
  <<"Gender", "Email_Opt_In", "Promotion_Response", "Target_Churn">>

RequiredColumns == fitur_numerik \o fitur_kategorikal

Range(s) == {s[i] : i \in DOMAIN s}

\* Values a profile column takes in the model.  They sit on and around the
\* thresholds the code compares them with.
IncomeVals == <<250000, 500000, 1000000, 10000000, 10000001>>
SpendVals == <<50000, 100000, 200000, 300000>>
YearsVals == <<4, 5, 6>>
PurchasesVals == <<9, 10, 11>>
AvgTxnVals == <<199, 200>>
SatisfactionVals == <<3, 4>>
RecencyVals == <<30, 31>>
PromoVals == <<"Merespons", "Tidak Merespons">>
ChurnVals == <<TRUE, FALSE>>

\* Product prices (app.py: a non-negative integer).
PriceVals == {0, 50000, 100000}

\* The dataset-wide means df[col].mean() that the scorer and the rules read.
DatasetMean ==
  [Last_Purchase_Days_Ago |-> 30, Years_as_Customer |-> 5,
   Num_of_Purchases |-> 10, Average_Transaction_Amount |-> 200]

\* All profile rows over the column values above.
ProfileSpace ==
  [Annual_Income : Range(IncomeVals), Total_Spend : Range(SpendVals),
   Years_as_Customer : Range(YearsVals), Num_of_Purchases : Range(PurchasesVals),
   Average_Transaction_Amount : Range(AvgTxnVals),
   Satisfaction_Score : Range(SatisfactionVals),
   Last_Purchase_Days_Ago : Range(RecencyVals),
   Promotion_Response : Range(PromoVals), Target_Churn : Range(ChurnVals)]

-----------------------------------------------------------------------------
(* Priority scorer *)

\* The same block with the thresholds included (>= in place of >).
DayaBeliInclusive(profile, harga) ==
  IF profile.Annual_Income >= harga * 10
  THEN [poin |-> 3, cf |-> cf_mapping["sangat_tinggi"]]
  ELSE IF profile.Annual_Income >= harga * 5
  THEN [poin |-> 2, cf |-> cf_mapping["tinggi"]]
  ELSE [poin |-> 1, cf |-> cf_mapping["sedang"]]

\* Purchasing-power block of hitung_skor_prioritas_cf.
DayaBeli(profile, harga) ==
  IF profile.Annual_Income > harga * 10
  THEN [poin |-> 3, cf |-> cf_mapping["sangat_tinggi"]]
  ELSE IF profile.Annual_Income > harga * 5
  THEN [poin |-> 2, cf |-> cf_mapping["tinggi"]]
  ELSE [poin |-> 1, cf |-> cf_mapping["sedang"]]

\* The same block with an else that counts a low spend as evidence against.
SpendLevelNegativeEvidence(profile, harga) ==
  IF profile.Total_Spend > harga * 2
  THEN [poin |-> 2, cf |-> cf_mapping["tinggi"]]
  ELSE IF profile.Total_Spend > harga
  THEN [poin |-> 1, cf |-> cf_mapping["sedang"]]
  ELSE [poin |-> 0, cf |-> cf_mapping["mungkin_tidak"]]

\* Spend-level block of hitung_skor_prioritas_cf.
SpendLevel(profile, harga) ==
  IF profile.Total_Spend > harga * 2
  THEN [poin |-> 2, cf |-> cf_mapping["tinggi"]]
  ELSE IF profile.Total_Spend > harga
  THEN [poin |-> 1, cf |-> cf_mapping["sedang"]]
  ELSE [poin |-> 0, cf |-> Rat(0, 1)]

\* The if/elif chain over tujuan_kampanye: the criteria of the matching
\* branch in the order the code tests them, each with whether it holds on
\* the profile, the points it adds and the confidence level it combines.
KriteriaKampanye(profile, tujuan, d) ==
  IF tujuan = LabelPenjualan THEN
    << [hit |-> profile.Promotion_Response = "Merespons", poin |-> 2, cf |-> "hampir_pasti"],
       [hit |-> profile.Satisfaction_Score >= 4, poin |-> 1, cf |-> "tinggi"] >>
  ELSE IF tujuan = LabelChurn THEN
    << [hit |-> profile.Target_Churn, poin |-> 3, cf |-> "pasti"],
       [hit |-> profile.Last_Purchase_Days_Ago > d.mean.Last_Purchase_Days_Ago,
        poin |-> 2, cf |-> "hampir_pasti"] >>
  ELSE IF tujuan = LabelLoyalitas THEN
    << [hit |-> ~profile.Target_Churn, poin |-> 3, cf |-> "pasti"],
       [hit |-> profile.Years_as_Customer > d.mean.Years_as_Customer,
        poin |-> 2, cf |-> "hampir_pasti"],
       [hit |-> profile.Satisfaction_Score >= 4, poin |-> 1, cf |-> "tinggi"] >>
  ELSE IF tujuan = LabelBaru THEN
    << [hit |-> profile.Promotion_Response = "Merespons", poin |-> 2, cf |-> "hampir_pasti"],
       [hit |-> profile.Years_as_Customer < d.mean.Years_as_Customer,
        poin |-> 1, cf |-> "tinggi"] >>
  ELSE IF tujuan = LabelTambahan THEN
    << [hit |-> profile.Num_of_Purchases > d.mean.Num_of_Purchases,
        poin |-> 2, cf |-> "hampir_pasti"],
       [hit |-> profile.Promotion_Response = "Merespons", poin |-> 1, cf |-> "tinggi"] >>
  ELSE << >>

\* The same chain with the later criteria of a branch written as elif: it
\* stops at the first criterion that holds.
RECURSIVE TerapkanKriteriaElif(_, _, _)
TerapkanKriteriaElif(kriteria, i, acc) ==
  IF i > Len(kriteria) THEN acc
  ELSE IF kriteria[i].hit
  THEN [poin |-> acc.poin + kriteria[i].poin,
        cf |-> CombineAfter(acc.cf, cf_mapping[kriteria[i].cf])]
  ELSE TerapkanKriteriaElif(kriteria, i + 1, acc)

\* Runs the criteria from position i on: skor += poin and
\* cf_kriteria_kampanye = calculate_cf_combination(cf_kriteria_kampanye, cf)
\* for each criterion that holds.
RECURSIVE TerapkanKriteria(_, _, _)
TerapkanKriteria(kriteria, i, acc) ==
  IF i > Len(kriteria) THEN acc
  ELSE IF kriteria[i].hit
  THEN TerapkanKriteria(kriteria, i + 1,
         [poin |-> acc.poin + kriteria[i].poin,
          cf |-> CombineAfter(acc.cf, cf_mapping[kriteria[i].cf])])
  ELSE TerapkanKriteria(kriteria, i + 1, acc)

\* hitung_skor_prioritas_cf(profile, harga_produk, tujuan_kampanye); d is the
\* DataFrame of the enclosing scope.  Besides the returned pair (skor,
\* cf_total) the record keeps the locals of the three evidence blocks.
hitung_skor_prioritas_cf(profile, harga, tujuan, d) ==
  LET daya == DayaBeli(profile, harga)
      spend == SpendLevel(profile, harga)
      krit == TerapkanKriteria(KriteriaKampanye(profile, tujuan, d), 1,
                               [poin |-> 0, cf |-> Returned(Rat(0, 1))])
      total == IF krit.cf.raised # "none" THEN krit.cf
               ELSE CombineAfter(calculate_cf_combination(daya.cf, spend.cf),
                                 krit.cf.value)
  IN  [raised |-> total.raised,
       skor |-> daya.poin + spend.poin + krit.poin,
       cf_total |-> total.value,
       poin_daya_beli |-> daya.poin, cf_daya_beli |-> daya.cf,
       poin_spend |-> spend.poin, cf_spend |-> spend.cf,
       poin_kriteria |-> krit.poin, cf_kriteria_kampanye |-> krit.cf.value]

\* The argument pairs of the calls of calculate_cf_combination made by the
\* criteria from position i on, in call order; r is the outcome that
\* cf_kriteria_kampanye holds so far.
RECURSIVE KriteriaCalls(_, _, _)
KriteriaCalls(kriteria, i, r) ==
  IF i > Len(kriteria) \/ r.raised # "none" THEN << >>
  ELSE IF kriteria[i].hit
  THEN LET cf2 == cf_mapping[kriteria[i].cf]
       IN  <<[cf1 |-> r.value, cf2 |-> cf2]>>
           \o KriteriaCalls(kriteria, i + 1,
                            calculate_cf_combination(r.value, cf2))
  ELSE KriteriaCalls(kriteria, i + 1, r)

\* The argument pairs of every call of calculate_cf_combination that one
\* call of hitung_skor_prioritas_cf makes, in call order: the calls of the
\* criteria, then the inner and the outer call of the cf_total line.
CombineCalls(profile, harga, tujuan, d) ==
  LET daya == DayaBeli(profile, harga)
      spend == SpendLevel(profile, harga)
      kriteria == KriteriaKampanye(profile, tujuan, d)
      start == Returned(Rat(0, 1))
      krit == TerapkanKriteria(kriteria, 1, [poin |-> 0, cf |-> start])
      inner == calculate_cf_combination(daya.cf, spend.cf)
  IN  KriteriaCalls(kriteria, 1, start)
      \o (IF krit.cf.raised # "none" THEN << >>
          ELSE <<[cf1 |-> daya.cf, cf2 |-> spend.cf]>>
               \o (IF inner.raised # "none" THEN << >>
                   ELSE <<[cf1 |-> inner.value, cf2 |-> krit.cf.value]>>))

-----------------------------------------------------------------------------
(* Ranking: list.sort(key=Skor_Prioritas, reverse=True) *)

Reverse(s) == [i \in 1..Len(s) |-> s[Len(s) + 1 - i]]

\* Inserts x behind every element whose key is not larger: ascending, stable.
RECURSIVE InsertAscending(_, _)
InsertAscending(sorted, x) ==
  IF sorted = << >> THEN <<x>>
  ELSE IF sorted[Len(sorted)].Skor_Prioritas <= x.Skor_Prioritas
  THEN Append(sorted, x)
  ELSE Append(InsertAscending(SubSeq(sorted, 1, Len(sorted) - 1), x),
              sorted[Len(sorted)])

RECURSIVE SortAscending(_)
SortAscending(s) ==
  IF s = << >> THEN << >>
  ELSE InsertAscending(SortAscending(SubSeq(s, 1, Len(s) - 1)), s[Len(s)])

\* A descending sort that loses the order of ties: sort ascending, reverse.
SortThenReverse(s) == Reverse(SortAscending(s))

\* list.sort with reverse=True: the list is reversed, sorted ascending by a
\* stable sort and reversed again, which keeps equal keys in input order.
list_sort_reverse(s) == Reverse(SortAscending(Reverse(s)))

-----------------------------------------------------------------------------
(* Rule engine *)

\* marketing_rules_fc: THEN and DESC of each rule, in declaration order.
marketing_rules_fc ==
  << [THEN |-> "Kirim penawaran eksklusif/produk premium",
      DESC |-> "Cocok untuk pelanggan berpenghasilan tinggi dan puas."],
     [THEN |-> "Luncurkan kampanye retensi dengan diskon menarik",
      DESC |-> "Prioritas tinggi untuk mencegah pelanggan beralih."],
     [THEN |-> "Tawarkan promosi untuk mendorong pembelian berulang",
      DESC |-> "Manfaatkan respons promosi untuk meningkatkan frekuensi pembelian."],
     [THEN |-> "Fokus pada up-selling atau cross-selling",
      DESC |-> "Dorong peningkatan nilai keranjang belanja."] >>

\* The IF lambda of forward rule number r.
RuleIF(r, p, d) ==
  CASE r = 1 -> p.Annual_Income > 10000000 /\ p.Satisfaction_Score >= 4
    [] r = 2 -> p.Target_Churn
                /\ p.Last_Purchase_Days_Ago > d.mean.Last_Purchase_Days_Ago
    [] r = 3 -> p.Promotion_Response = "Merespons"
                /\ p.Num_of_Purchases < d.mean.Num_of_Purchases
    [] r = 4 -> p.Average_Transaction_Amount < d.mean.Average_Transaction_Amount
                /\ p.Num_of_Purchases > d.mean.Num_of_Purchases

\* The inner loop of the forward chaining: the rules that fire on p.
RECURSIVE FiredRules(_, _, _)
FiredRules(r, p, d) ==
  IF r > Len(marketing_rules_fc) THEN << >>
  ELSE IF RuleIF(r, p, d)
  THEN <<marketing_rules_fc[r]>> \o FiredRules(r + 1, p, d)
  ELSE FiredRules(r + 1, p, d)

\* marketing_rules_bc: STRATEGY of each goal, keyed by the objective label.
marketing_rules_bc ==
  (LabelLoyalitas :>
     [STRATEGY |-> "Kirim hadiah loyalitas atau undangan acara eksklusif."])
  @@ (LabelChurn :> [STRATEGY |-> "Luncurkan kampanye retensi agresif."])
  @@ (LabelBaru :>
     [STRATEGY |-> "Iklankan melalui kanal yang menarik demografi klaster ini."])

\* The THEN_IF lambda of the backward rule of a goal.
RuleTHEN_IF(goal, p, d) ==
  CASE goal = LabelLoyalitas ->
         ~p.Target_Churn
         /\ p.Years_as_Customer > d.mean.Years_as_Customer
         /\ p.Satisfaction_Score >= 4
    [] goal = LabelChurn ->
         p.Target_Churn
         /\ p.Last_Purchase_Days_Ago > d.mean.Last_Purchase_Days_Ago
    [] goal = LabelBaru ->
         p.Promotion_Response = "Merespons"
         /\ p.Years_as_Customer < d.mean.Years_as_Customer

-----------------------------------------------------------------------------
(* Hierarchical planner *)

\* The static catalog of get_hierarchical_plan.
plans ==
  ("Kirim penawaran eksklusif/produk premium" :>
     [Mayor |-> "Luncheon Kampanye Produk Premium",
      Steps |-> <<"Desain Materi Pemasaran", "Segmentasikan Audiens",
                  "Jadwalkan Pengiriman">>])
  @@ ("Luncurkan kampanye retensi dengan diskon menarik" :>
     [Mayor |-> "Implementasi Program Retensi",
      Steps |-> <<"Identifikasi Pelanggan Berisiko",
                  "Rancang Penawaran Personalisasi", "Sertakan Survei Kepuasan">>])
  @@ ("Tawarkan promosi untuk mendorong pembelian berulang" :>
     [Mayor |-> "Optimalisasi Promosi Pembelian Berulang",
      Steps |-> <<"Analisis Produk Sering Dibeli", "Buat Kupon/Poin Loyalitas",
                  "Kirim Notifikasi Otomatis">>])
  @@ ("Fokus pada up-selling atau cross-selling" :>
     [Mayor |-> "Strategi Peningkatan Nilai Keranjang",
      Steps |-> <<"Identifikasi Produk Komplementer",
                  "Implementasikan Rekomendasi di Situs", "Latih Tim Penjualan">>])
  @@ ("Kirim hadiah loyalitas atau undangan acara eksklusif." :>
     [Mayor |-> "Program Apresiasi Pelanggan Loyal",
      Steps |-> <<"Verifikasi Kriteria Loyalitas", "Pilih Jenis Hadiah/Acara",
                  "Komunikasikan Manfaat Program">>])
  @@ ("Luncurkan kampanye retensi agresif." :>
     [Mayor |-> "Kampanye Retensi Agresif",
      Steps |-> <<"Hubungi Pelanggan Secara Personal",
                  "Tawarkan Diskon 'Win-Back'", "Analisis Feedback Churn">>])
  @@ ("Iklankan melalui kanal yang menarik demografi klaster ini." :>
     [Mayor |-> "Akuisisi Pelanggan Baru Tertarget",
      Steps |-> <<"Analisis Preferensi Media", "Buat Konten Iklan Relevan",
                  "Monitor Kinerja Iklan">>])

\* The default of plans.get.
GenericPlan ==
  [Mayor |-> "Strategi Umum", Steps |-> <<"Langkah umum 1", "Langkah umum 2">>]

\* plans.get(strategy_type) without the default: None for an unknown text.
get_plan_without_default(strategy_type) ==
  IF strategy_type \in DOMAIN plans THEN plans[strategy_type]
  ELSE [Mayor |-> None, Steps |-> << >>]

\* get_hierarchical_plan(strategy_type) == plans.get(strategy_type, default)
get_hierarchical_plan(strategy_type) ==
  IF strategy_type \in DOMAIN plans THEN plans[strategy_type] ELSE GenericPlan

-----------------------------------------------------------------------------
(* run_full_analysis: the loops after profiling *)

\* The parts of the rendered description that are derived by a test.
Description(i, p, d) ==
  [Klaster |-> i,
   Frekuensi |-> IF p.Num_of_Purchases > d.mean.Num_of_Purchases
                 THEN "sering" ELSE "jarang",
   Respons |-> p.Promotion_Response,
   Status |-> IF p.Target_Churn THEN "Cenderung Churn"
              ELSE "Tidak Cenderung Churn"]

\* The scoring loop before the sort: one entry per cid in range(K).
ScoredClusters(K, profiles, harga, tujuan, d, descriptions) ==
  [i \in 1..K |->
     LET h == hitung_skor_prioritas_cf(profiles[i - 1], harga, tujuan, d)
     IN  [Klaster_ID |-> i - 1, Skor_Prioritas |-> h.skor,
          CF_Prioritas |-> h.cf_total, Deskripsi |-> descriptions[i - 1]]]

\* prioritas_klaster after the sort.
RankedClusters(K, profiles, harga, tujuan, d, descriptions) ==
  list_sort_reverse(ScoredClusters(K, profiles, harga, tujuan, d, descriptions))

\* The forward-chaining loop reading the profile at the position of the
\* ranked list instead of the profile of the segment id.
ForwardChainingByPosition(ranked, profiles, d) ==
  [cid \in {ranked[i].Klaster_ID : i \in DOMAIN ranked} |->
     FiredRules(1, profiles[ranked[cid + 1].Klaster_ID], d)]

\* The forward-chaining loop over the ranked list.
ForwardChaining(ranked, profiles, d) ==
  [cid \in {ranked[i].Klaster_ID : i \in DOMAIN ranked} |->
     FiredRules(1, profiles[cid], d)]

\* The same loop leaving at the first segment that passes (a break).
RECURSIVE BackwardLoopBreak(_, _, _, _, _, _)
BackwardLoopBreak(cid, K, goal, profiles, d, descriptions) ==
  IF cid >= K THEN << >>
  ELSE IF RuleTHEN_IF(goal, profiles[cid], d)
  THEN <<[Klaster_ID |-> cid, Deskripsi |-> descriptions[cid],
          Strategi |-> marketing_rules_bc[goal].STRATEGY]>>
  ELSE BackwardLoopBreak(cid + 1, K, goal, profiles, d, descriptions)

\* The backward-chaining loop over range(K), from cluster id cid on.
RECURSIVE BackwardLoop(_, _, _, _, _, _)
BackwardLoop(cid, K, goal, profiles, d, descriptions) ==
  IF cid >= K THEN << >>
  ELSE IF RuleTHEN_IF(goal, profiles[cid], d)
  THEN <<[Klaster_ID |-> cid, Deskripsi |-> descriptions[cid],
          Strategi |-> marketing_rules_bc[goal].STRATEGY]>>
       \o BackwardLoop(cid + 1, K, goal, profiles, d, descriptions)
  ELSE BackwardLoop(cid + 1, K, goal, profiles, d, descriptions)

BackwardChaining(K, tujuan, profiles, d, descriptions) ==
  IF tujuan \in DOMAIN marketing_rules_bc
  THEN BackwardLoop(0, K, tujuan, profiles, d, descriptions)
  ELSE << >>

\* dict.get(key): None when the key is absent.
DictGet(dict, key) == IF key \in DOMAIN dict THEN dict[key] ELSE << >>

\* The same choice with the forward rules of cluster 0 in place of those of
\* the top-ranked cluster.
TopStrategyOfClusterZero(bc, fc, ranked) ==
  IF bc # << >> THEN bc[1].Strategi
  ELSE IF DictGet(fc, 0) # << >>
  THEN fc[0][1].THEN
  ELSE None

\* top_strategy: the first backward result, else the first forward rule of
\* the top-ranked cluster, else None.
TopStrategy(bc, fc, ranked) ==
  IF bc # << >> THEN bc[1].Strategi
  ELSE IF DictGet(fc, ranked[1].Klaster_ID) # << >>
  THEN fc[ranked[1].Klaster_ID][1].THEN
  ELSE None

\* The part of the summary text that depends on the run.
Summary(K, descriptions, harga, tujuan, ranked) ==
  [n_clusters |-> K, harga |-> harga, tujuan |-> upper(tujuan),
   prioritas |-> [i \in DOMAIN ranked |->
                    [Klaster |-> ranked[i].Klaster_ID,
                     Skor |-> ranked[i].Skor_Prioritas,
                     CF |-> ranked[i].CF_Prioritas]]]

-----------------------------------------------------------------------------
(* Inputs of a run *)

\* The profile row number i of ProfileSpace, counting the columns as the
\* digits of a mixed-radix numeral.
ProfileAt(i) ==
  LET pick(vals, div) == vals[((i \div div) % Len(vals)) + 1]
  IN  [Annual_Income |-> pick(IncomeVals, 1),
       Total_Spend |-> pick(SpendVals, 5),
       Years_as_Customer |-> pick(YearsVals, 20),
       Num_of_Purchases |-> pick(PurchasesVals, 60),
       Average_Transaction_Amount |-> pick(AvgTxnVals, 180),
       Satisfaction_Score |-> pick(SatisfactionVals, 360),
       Last_Purchase_Days_Ago |-> pick(RecencyVals, 720),
       Promotion_Response |-> pick(PromoVals, 1440),
       Target_Churn |-> pick(ChurnVals, 2880)]

\* The profile rows a cluster can take in a pipeline run: MaxSample rows
\* spread evenly over ProfileSpace.
SampleProfiles == {ProfileAt((j * 2422) % 5760) : j \in 0..(MaxSample - 1)}

\* Column sets of the input table: all required columns but at most two,
\* and a column the pipeline does not use.
ColumnSets ==
  {(Range(RequiredColumns) \ missing) \cup {"Customer_ID"} :
     missing \in {m \in SUBSET Range(RequiredColumns) : Cardinality(m) <= 2}}

\* An uploaded or existing CSV file, and a path that names no file.
ExistingFiles ==
  {[exists |-> TRUE, columns |-> c, mean |-> DatasetMean] : c \in ColumnSets}

MissingFile == [exists |-> FALSE, columns |-> {}, mean |-> DatasetMean]

\* The options of the objective selectbox of app.py.
SelectOptions ==
  {LabelLoyalitas, LabelChurn, LabelBaru, LabelPenjualan, LabelTambahan}

\* Objective labels a caller of run_full_analysis can pass: the options, the
\* same in upper case, one capitalised spelling, one label outside the set.
ObjectiveInputs ==
  SelectOptions \cup {upper(l) : l \in SelectOptions}
  \cup {LabelChurnJudul, LabelLain}

\* The slider of app.py starts at 2.
SliderMin == 2

NoDf == [columns |-> {}, mean |-> DatasetMean, Cluster |-> {}]

NoFrame == [numerik |-> << >>, kategorikal |-> << >>]

-----------------------------------------------------------------------------
(* The run as a state machine *)

Init ==
  /\ pc = "idle"
  /\ file = MissingFile
  /\ df = NoDf
  /\ n_clusters_chosen = 0
  /\ harga_produk = 0
  /\ tujuan_kampanye = << >>
  /\ df_processed = NoFrame
  /\ cluster_profiles = EmptyDict
  /\ cluster_descriptions = EmptyDict
  /\ prioritas_klaster = << >>
  /\ fc_results = EmptyDict
  /\ bc_results = << >>
  /\ results = EmptyDict
  /\ hasil = EmptyDict
  /\ raised = "none"
  /\ view = "none"
  /\ fn_call = [fn |-> "none"]
  /\ fn_ret = [state |-> "none"]

Locals ==
  <<df, df_processed, cluster_profiles, cluster_descriptions,
    prioritas_klaster, fc_results, bc_results, results, hasil, raised>>

Args == <<file, n_clusters_chosen, harga_produk, tujuan_kampanye>>

Harness == <<fn_call, fn_ret>>

\* app.py: the button is pressed with an uploaded file, a slider value, a
\* price and a selectbox option, which is lower-cased before the call.
AppRun ==
  /\ pc = "idle"
  /\ \E f \in ExistingFiles, K \in SliderMin..MaxK, harga \in PriceVals,
        option \in SelectOptions :
       /\ file' = f
       /\ n_clusters_chosen' = K
       /\ harga_produk' = harga
       /\ tujuan_kampanye' = lower(option)
  /\ view' = "spinner"
  /\ pc' = "read_csv"
  /\ UNCHANGED <<Locals, Harness>>

\* run_full_analysis called by any other caller, with its arguments as given.
CallRunFullAnalysis ==
  /\ pc = "idle"
  /\ \E f \in ExistingFiles \cup {MissingFile}, K \in SliderMin..MaxK,
        harga \in PriceVals, tujuan \in ObjectiveInputs :
       /\ file' = f
       /\ n_clusters_chosen' = K
       /\ harga_produk' = harga
       /\ tujuan_kampanye' = tujuan
  /\ pc' = "read_csv"
  /\ UNCHANGED <<Locals, Harness, view>>

\* The error message of a missing file / of a missing column (f-strings).
FileError(path) == <<"File tidak ditemukan di path: ", path>>

ColumnError(col) ==
  <<"Kolom yang dibutuhkan '", col, "' tidak ditemukan di dalam file CSV Anda.">>

\* pd.read_csv, and the return on FileNotFoundError.
ReadCsv ==
  /\ pc = "read_csv"
  /\ IF file.exists
     THEN /\ df' = [columns |-> file.columns, mean |-> file.mean, Cluster |-> {}]
          /\ pc' = "check_columns"
          /\ UNCHANGED hasil
     ELSE /\ hasil' = ("error" :> FileError("file_path"))
          /\ pc' = "returned"
          /\ UNCHANGED df
  /\ UNCHANGED <<Args, df_processed, cluster_profiles, cluster_descriptions,
                 prioritas_klaster, fc_results, bc_results, results, raised,
                 view, Harness>>

\* The same scan with the two lists concatenated the other way round.
MissingColumnsKategorikalFirst(d) ==
  SelectSeq(fitur_kategorikal \o fitur_numerik, LAMBDA col : col \notin d.columns)

\* The required columns that df lacks, in declared order.
MissingColumns(d) ==
  SelectSeq(RequiredColumns, LAMBDA col : col \notin d.columns)

\* The loop over fitur_numerik + fitur_kategorikal: returns at the first
\* column that is not in df.columns.
CheckColumns ==
  /\ pc = "check_columns"
  /\ IF MissingColumns(df) # << >>
     THEN /\ hasil' = ("error" :> ColumnError(MissingColumns(df)[1]))
          /\ pc' = "returned"
     ELSE /\ pc' = "preprocess"
          /\ UNCHANGED hasil
  /\ UNCHANGED <<Args, df, df_processed, cluster_profiles, cluster_descriptions,
                 prioritas_klaster, fc_results, bc_results, results, raised,
                 view, Harness>>

\* StandardScaler and OneHotEncoder, concatenated into df_processed.
Preprocess ==
  /\ pc = "preprocess"
  /\ df_processed' = [numerik |-> fitur_numerik, kategorikal |-> fitur_kategorikal]
  /\ pc' = "evaluate"
  /\ UNCHANGED <<Args, df, cluster_profiles, cluster_descriptions,
                 prioritas_klaster, fc_results, bc_results, results, hasil,
                 raised, view, Harness>>

\* The sweep over K = 2..10 and the evaluation figure.
Evaluate ==
  /\ pc = "evaluate"
  /\ results' = results @@ ("evaluation_plot" :> "fig_eval")
  /\ pc' = "cluster"
  /\ UNCHANGED <<Args, df, df_processed, cluster_profiles, cluster_descriptions,
                 prioritas_klaster, fc_results, bc_results, hasil, raised,
                 view, Harness>>

\* KMeans(n_clusters=K).fit_predict: every record gets an id in 0..K-1; the
\* ids that received a record are any non-empty subset.
Cluster ==
  /\ pc = "cluster"
  /\ \E labels \in SUBSET (0..(n_clusters_chosen - 1)) :
       /\ labels # {}
       /\ df' = [df EXCEPT !.columns = @ \cup {"Cluster"}, !.Cluster = labels]
  /\ results' = results @@ ("df_with_clusters" :> df')
  /\ pc' = "profile"
  /\ UNCHANGED <<Args, df_processed, cluster_profiles, cluster_descriptions,
                 prioritas_klaster, fc_results, bc_results, hasil, raised,
                 view, Harness>>

\* df.groupby('Cluster').agg(...).round(2): one row per id that has records.
Profile ==
  /\ pc = "profile"
  /\ cluster_profiles' \in [df.Cluster -> SampleProfiles]
  /\ results' = results @@ ("cluster_profiles" :> cluster_profiles')
  /\ pc' = "describe"
  /\ UNCHANGED <<Args, df, df_processed, cluster_descriptions,
                 prioritas_klaster, fc_results, bc_results, hasil, raised,
                 view, Harness>>

\* The description loop over range(K); cluster_profiles.loc[i] raises
\* KeyError for an id without a row.
Describe ==
  /\ pc = "describe"
  /\ IF \E i \in 0..(n_clusters_chosen - 1) : i \notin DOMAIN cluster_profiles
     THEN /\ raised' = "KeyError"
          /\ pc' = "raised"
          /\ UNCHANGED <<cluster_descriptions, results>>
     ELSE /\ cluster_descriptions' =
               [i \in 0..(n_clusters_chosen - 1) |->
                  Description(i, cluster_profiles[i], df)]
          /\ results' = results @@ ("cluster_descriptions" :> cluster_descriptions')
          /\ pc' = "score"
          /\ UNCHANGED raised
  /\ UNCHANGED <<Args, df, df_processed, cluster_profiles, prioritas_klaster,
                 fc_results, bc_results, hasil, view, Harness>>

\* GaussianNB fit, the scoring loop and the sort.  An exception of the
\* scorer leaves the run.
Score ==
  /\ pc = "score"
  /\ IF \E cid \in 0..(n_clusters_chosen - 1) :
          hitung_skor_prioritas_cf(cluster_profiles[cid], harga_produk,
                                   tujuan_kampanye, df).raised # "none"
     THEN /\ raised' = "ZeroDivisionError"
          /\ pc' = "raised"
          /\ UNCHANGED <<prioritas_klaster, results>>
     ELSE /\ prioritas_klaster' =
               RankedClusters(n_clusters_chosen, cluster_profiles, harga_produk,
                              tujuan_kampanye, df, cluster_descriptions)
          /\ results' = results @@ ("prioritas_klaster" :> prioritas_klaster')
          /\ pc' = "infer"
          /\ UNCHANGED raised
  /\ UNCHANGED <<Args, df, df_processed, cluster_profiles, cluster_descriptions,
                 fc_results, bc_results, hasil, view, Harness>>

\* Forward chaining, then backward chaining.
Infer ==
  /\ pc = "infer"
  /\ fc_results' = ForwardChaining(prioritas_klaster, cluster_profiles, df)
  /\ bc_results' =
       BackwardChaining(n_clusters_chosen, tujuan_kampanye, cluster_profiles,
                        df, cluster_descriptions)
  /\ results' = results @@ ("forward_chaining_results" :> fc_results')
                        @@ ("backward_chaining_results" :> bc_results')
  /\ pc' = "plan"
  /\ UNCHANGED <<Args, df, df_processed, cluster_profiles, cluster_descriptions,
                 prioritas_klaster, hasil, raised, view, Harness>>

\* The plan for top_strategy (if any), the summary, and the return.
Finish ==
  /\ pc = "plan"
  /\ LET top_strategy == TopStrategy(bc_results, fc_results, prioritas_klaster)
         planned ==
           IF top_strategy # None /\ top_strategy # ""
           THEN results
                @@ ("hierarchical_plan" :> get_hierarchical_plan(top_strategy))
                @@ ("top_strategy_for_plan" :> top_strategy)
           ELSE results
     IN  results' = planned
           @@ ("final_summary" :>
                 Summary(n_clusters_chosen, cluster_descriptions, harga_produk,
                         tujuan_kampanye, prioritas_klaster))
  /\ hasil' = results'
  /\ pc' = "returned"
  /\ UNCHANGED <<Args, df, df_processed, cluster_profiles, cluster_descriptions,
                 prioritas_klaster, fc_results, bc_results, raised, view,
                 Harness>>

\* app.py after the call: the error branch, or the tabs with the plan or
\* the notice that no plan could be made.
Render ==
  /\ pc = "returned"
  /\ view = "spinner"
  /\ view' = IF "error" \in DOMAIN hasil THEN "error"
             ELSE IF "hierarchical_plan" \in DOMAIN hasil THEN "plan"
             ELSE "no_plan"
  /\ pc' = "rendered"
  /\ UNCHANGED <<Args, Locals, Harness>>

Next ==
  \/ AppRun
  \/ CallRunFullAnalysis
  \/ ReadCsv
  \/ CheckColumns
  \/ Preprocess
  \/ Evaluate
  \/ Cluster
  \/ Profile
  \/ Describe
  \/ Score
  \/ Infer
  \/ Finish
  \/ Render

Spec == Init /\ [][Next]_vars

-----------------------------------------------------------------------------
(* The pure functions on their own: one call with arguments from bounded   *)
(* sets, and its outcome.                                                  *)

\* Certainty factors in [-1, 1] in steps of a tenth; contains CFValues.
CFGrid == {Rat(n, 10) : n \in -10..10}

\* Strategy texts: the keys of the catalog (every THEN and STRATEGY of the
\* rule tables is one) and texts that are no key.
StrategyInputs ==
  DOMAIN plans
  \cup {"", "Strategi Umum", "Luncurkan kampanye retensi agresif",
        "kirim penawaran eksklusif/produk premium"}

ApplyCombine ==
  /\ pc = "idle"
  /\ fn_call.fn = "none"
  /\ \E cf1 \in CFGrid, cf2 \in CFGrid :
       /\ fn_call' = [fn |-> "calculate_cf_combination", cf1 |-> cf1, cf2 |-> cf2]
       /\ fn_ret' = calculate_cf_combination(cf1, cf2)
  /\ UNCHANGED <<pc, Args, Locals, view>>

ApplyPlan ==
  /\ pc = "idle"
  /\ fn_call.fn = "none"
  /\ \E s \in StrategyInputs :
       /\ fn_call' = [fn |-> "get_hierarchical_plan", strategy_type |-> s]
       /\ fn_ret' = get_hierarchical_plan(s)
  /\ UNCHANGED <<pc, Args, Locals, view>>

\* Objective labels of a scorer call: the options, a label outside the set
\* and one option in upper case.
ScoreObjectives == SelectOptions \cup {LabelLain, upper(LabelChurn)}

ApplyScore ==
  /\ pc = "idle"
  /\ fn_call.fn = "none"
  /\ \E p \in ProfileSpace, harga \in PriceVals, tujuan \in ScoreObjectives :
       /\ fn_call' = [fn |-> "hitung_skor_prioritas_cf", profile |-> p,
                      harga_produk |-> harga, tujuan_kampanye |-> tujuan]
       /\ fn_ret' = hitung_skor_prioritas_cf(p, harga, tujuan, NoDf)
  /\ UNCHANGED <<pc, Args, Locals, view>>

\* The certainty-factor engine and the planner.
NextFn ==
  \/ ApplyCombine
  \/ ApplyPlan

SpecFn == Init /\ [][NextFn]_vars

\* The priority scorer.
NextScore == ApplyScore

SpecScore == Init /\ [][NextScore]_vars

-----------------------------------------------------------------------------
(* Claims *)

\* x lies in [-1, 1].
InUnitRange(x) == x.den > 0 /\ RLe(MinusOne, x) /\ RLe(x, One)

\* The two arguments have opposite signs in the sense of the third branch.
MixedSign(cf1, cf2) ==
  ~(RLe(Zero, cf1) /\ RLe(Zero, cf2)) /\ ~(RLt(cf1, Zero) /\ RLt(cf2, Zero))

\* C1: for every pair of certainty factors in [-1, 1] the combination
\* returns without an exception and its value lies in [-1, 1]; where the
\* signs are mixed and min(|cf1|, |cf2|) = 1 the result is +1 or -1.
C1_CombineTotalAndBounded ==
  fn_call.fn = "calculate_cf_combination" =>
    /\ fn_ret.raised = "none"
    /\ InUnitRange(fn_ret.value)
    /\ (MixedSign(fn_call.cf1, fn_call.cf2)
        /\ RMin(RAbs(fn_call.cf1), RAbs(fn_call.cf2)) = One)
       => fn_ret.value \in {One, MinusOne}

\* C1, the part the code keeps: a call raises only for the pairs (1, -1)
\* and (-1, 1), and every value returned lies in [-1, 1].
C1_BoundedWhereDefined ==
  fn_call.fn = "calculate_cf_combination" =>
    /\ fn_ret.raised # "none" <=>
         {fn_call.cf1, fn_call.cf2} = {One, MinusOne}
    /\ fn_ret.raised = "none" => InUnitRange(fn_ret.value)

\* The least position of RequiredColumns whose column the table lacks.
FirstMissingIndex(columns) ==
  CHOOSE i \in DOMAIN RequiredColumns :
    /\ RequiredColumns[i] \notin columns
    /\ \A j \in 1..(i - 1) : RequiredColumns[j] \in columns

LacksColumn(f) == f.exists /\ ~(Range(RequiredColumns) \subseteq f.columns)

\* C2: when the table lacks a required column, the run never reaches
\* scaling, encoding, the sweep or the clustering, and what it returns has
\* the error field only, whose message names the first missing column in
\* declared order (numeric list, then categorical list).
C2_SchemaErrorOnly ==
  (pc # "idle" /\ LacksColumn(file)) =>
    /\ pc \in {"read_csv", "check_columns", "returned", "rendered"}
    /\ df_processed = NoFrame /\ df.Cluster = {}
    /\ results = EmptyDict /\ cluster_profiles = EmptyDict
    /\ prioritas_klaster = << >> /\ fc_results = EmptyDict /\ bc_results = << >>
    /\ raised = "none"
    /\ pc \in {"returned", "rendered"} =>
         /\ DOMAIN hasil = {"error"}
         /\ hasil["error"] =
              ColumnError(RequiredColumns[FirstMissingIndex(file.columns)])
    /\ pc = "rendered" => view = "error"

\* C2 witness: a table without Total_Spend (numeric) and without Gender
\* (categorical) has been rejected, and the message names Total_Spend.
C2_Witness ==
  /\ pc = "returned"
  /\ file.exists
  /\ Range(RequiredColumns) \ file.columns = {"Gender", "Total_Spend"}
  /\ hasil = ("error" :> ColumnError("Total_Spend"))

\* The run has passed the scoring step without an exception.
Ranked == pc \in {"infer", "plan", "returned", "rendered"} /\ raised = "none"
                /\ "error" \notin DOMAIN hasil

\* C3: the ranked list is a permutation of the segment ids 0..K-1, ordered
\* by integer score descending, and two segments of equal score appear in
\* ascending id order whatever their certainty factors.
C3_RankingStableDescending ==
  Ranked =>
    /\ Len(prioritas_klaster) = n_clusters_chosen
    /\ {prioritas_klaster[i].Klaster_ID : i \in DOMAIN prioritas_klaster}
         = 0..(n_clusters_chosen - 1)
    /\ \A i, j \in DOMAIN prioritas_klaster :
         i < j =>
           /\ prioritas_klaster[i].Skor_Prioritas >= prioritas_klaster[j].Skor_Prioritas
           /\ prioritas_klaster[i].Skor_Prioritas = prioritas_klaster[j].Skor_Prioritas
                => prioritas_klaster[i].Klaster_ID < prioritas_klaster[j].Klaster_ID
    /\ \A i \in DOMAIN prioritas_klaster :
         LET h == hitung_skor_prioritas_cf(
                    cluster_profiles[prioritas_klaster[i].Klaster_ID],
                    harga_produk, tujuan_kampanye, df)
         IN  /\ prioritas_klaster[i].Skor_Prioritas = h.skor
             /\ prioritas_klaster[i].CF_Prioritas = h.cf_total
    /\ pc \in {"returned", "rendered"} =>
         hasil["prioritas_klaster"] = prioritas_klaster

\* C3 witness: three segments were ranked; segment 1 scores highest and
\* comes first, segments 0 and 2 tie in score, segment 0 has the smaller
\* certainty factor and still precedes segment 2.
C3_Witness ==
  /\ pc = "returned"
  /\ n_clusters_chosen = 3
  /\ Len(prioritas_klaster) = 3
  /\ prioritas_klaster[1].Klaster_ID = 1
  /\ prioritas_klaster[2].Klaster_ID = 0
  /\ prioritas_klaster[3].Klaster_ID = 2
  /\ prioritas_klaster[1].Skor_Prioritas > prioritas_klaster[2].Skor_Prioritas
  /\ prioritas_klaster[2].Skor_Prioritas = prioritas_klaster[3].Skor_Prioritas
  /\ RLt(prioritas_klaster[2].CF_Prioritas, prioritas_klaster[3].CF_Prioritas)

\* The scorer was called for the churn objective on a churn-flagged profile
\* whose recency is above the dataset mean.
ChurnCase ==
  /\ fn_call.fn = "hitung_skor_prioritas_cf"
  /\ fn_call.tujuan_kampanye = LabelChurn
  /\ fn_call.profile.Target_Churn
  /\ fn_call.profile.Last_Purchase_Days_Ago > DatasetMean.Last_Purchase_Days_Ago

\* C4: in that case the objective adds exactly 5 points to the price-based
\* points (the score of the same profile and price under an objective that
\* contributes nothing), and the objective's certainty factor is exactly 1.
C4_ChurnContribution ==
  ChurnCase =>
    /\ fn_ret.raised = "none"
    /\ fn_ret.poin_kriteria = 5
    /\ fn_ret.skor = fn_ret.poin_daya_beli + fn_ret.poin_spend + 5
    /\ fn_ret.skor =
         hitung_skor_prioritas_cf(fn_call.profile, fn_call.harga_produk,
                                  LabelLain, NoDf).skor + 5
    /\ fn_ret.cf_kriteria_kampanye = One

\* C4 witness: such a call has returned, with 1 + 0 price-based points.
C4_Witness ==
  /\ ChurnCase
  /\ fn_ret.skor = 6
  /\ fn_ret.cf_kriteria_kampanye = One

\* The run has passed the chaining step without an exception.
Inferred == pc \in {"plan", "returned", "rendered"} /\ raised = "none"
                  /\ "error" \notin DOMAIN hasil

\* The condition and the strategy text of each goal of the backward rules,
\* as the rule table states them.
GoalCondition(goal, p) ==
  IF goal = LabelLoyalitas
  THEN ~p.Target_Churn /\ p.Years_as_Customer > DatasetMean.Years_as_Customer
       /\ p.Satisfaction_Score >= 4
  ELSE IF goal = LabelChurn
  THEN p.Target_Churn
       /\ p.Last_Purchase_Days_Ago > DatasetMean.Last_Purchase_Days_Ago
  ELSE p.Promotion_Response = "Merespons"
       /\ p.Years_as_Customer < DatasetMean.Years_as_Customer

GoalStrategy(goal) ==
  IF goal = LabelLoyalitas
  THEN "Kirim hadiah loyalitas atau undangan acara eksklusif."
  ELSE IF goal = LabelChurn THEN "Luncurkan kampanye retensi agresif."
  ELSE "Iklankan melalui kanal yang menarik demografi klaster ini."

\* C5: for an objective among the goals of the backward rules the result
\* holds exactly one entry per segment that satisfies the goal's condition,
\* in ascending segment order, with the goal's strategy; for any other
\* label it is empty; no exception leaves the step.
C5_BackwardChaining ==
  /\ pc \in {"plan", "returned", "rendered"} /\ "error" \notin DOMAIN hasil
       => raised = "none"
  /\ Inferred =>
       IF tujuan_kampanye \in {LabelLoyalitas, LabelChurn, LabelBaru}
       THEN /\ \A i \in DOMAIN bc_results :
                 /\ bc_results[i].Klaster_ID \in 0..(n_clusters_chosen - 1)
                 /\ GoalCondition(tujuan_kampanye,
                                  cluster_profiles[bc_results[i].Klaster_ID])
                 /\ bc_results[i].Strategi = GoalStrategy(tujuan_kampanye)
            /\ \A i, j \in DOMAIN bc_results :
                 i < j => bc_results[i].Klaster_ID < bc_results[j].Klaster_ID
            /\ \A cid \in 0..(n_clusters_chosen - 1) :
                 GoalCondition(tujuan_kampanye, cluster_profiles[cid])
                   => \E i \in DOMAIN bc_results : bc_results[i].Klaster_ID = cid
       ELSE bc_results = << >>

\* C5 witness: for the churn goal with three segments, segments 0 and 2
\* satisfy the condition and segment 1 does not; the result lists 0, then 2.
C5_Witness ==
  /\ pc = "plan"
  /\ tujuan_kampanye = LabelChurn
  /\ n_clusters_chosen = 3
  /\ Len(bc_results) = 2
  /\ bc_results[1].Klaster_ID = 0
  /\ bc_results[2].Klaster_ID = 2
  /\ ~GoalCondition(LabelChurn, cluster_profiles[1])

\* The run has returned a bundle that is not an error.
ReturnedBundle ==
  pc \in {"returned", "rendered"} /\ "error" \notin DOMAIN hasil

\* The forward firings of the top-ranked segment.
TopFirings == fc_results[prioritas_klaster[1].Klaster_ID]

\* C6: the plan is looked up from the strategy of the first backward result
\* when there is one; otherwise from the first fired forward rule of the
\* top-ranked segment when it has one; otherwise the bundle has no plan,
\* whatever fired for lower-ranked segments.  app.py shows the plan exactly
\* when the bundle has one.
C6_PlanPrecedence ==
  ReturnedBundle =>
    /\ IF hasil["backward_chaining_results"] # << >>
       THEN /\ "hierarchical_plan" \in DOMAIN hasil
            /\ hasil["top_strategy_for_plan"] =
                 hasil["backward_chaining_results"][1].Strategi
            /\ hasil["hierarchical_plan"] =
                 plans[hasil["backward_chaining_results"][1].Strategi]
       ELSE IF hasil["forward_chaining_results"]
                 [hasil["prioritas_klaster"][1].Klaster_ID] # << >>
       THEN /\ "hierarchical_plan" \in DOMAIN hasil
            /\ hasil["top_strategy_for_plan"] =
                 hasil["forward_chaining_results"]
                   [hasil["prioritas_klaster"][1].Klaster_ID][1].THEN
            /\ hasil["hierarchical_plan"] =
                 plans[hasil["forward_chaining_results"]
                         [hasil["prioritas_klaster"][1].Klaster_ID][1].THEN]
       ELSE /\ "hierarchical_plan" \notin DOMAIN hasil
            /\ "top_strategy_for_plan" \notin DOMAIN hasil
    /\ pc = "rendered" =>
         view = IF "hierarchical_plan" \in DOMAIN hasil THEN "plan" ELSE "no_plan"

\* C6 witness: no backward result, the top-ranked segment is not segment 0
\* and fired no forward rule, segment 0 did fire one, and the bundle was
\* returned without a plan.
C6_Witness ==
  /\ pc = "returned"
  /\ "error" \notin DOMAIN hasil
  /\ bc_results = << >>
  /\ prioritas_klaster[1].Klaster_ID # 0
  /\ TopFirings = << >>
  /\ fc_results[0] # << >>
  /\ "hierarchical_plan" \notin DOMAIN hasil

\* C7: for a strategy text of the catalog the planner returns that entry,
\* a major action with its ordered minor steps; for any other text it
\* returns the generic plan, major "Strategi Umum" with exactly two generic
\* steps.  Every call returns.
C7_PlannerLookup ==
  fn_call.fn = "get_hierarchical_plan" =>
    IF fn_call.strategy_type \in DOMAIN plans
    THEN /\ fn_ret = plans[fn_call.strategy_type]
         /\ fn_ret.Mayor # "Strategi Umum"
         /\ Len(fn_ret.Steps) = 3
    ELSE /\ fn_ret.Mayor = "Strategi Umum"
         /\ fn_ret.Steps = <<"Langkah umum 1", "Langkah umum 2">>

\* C7 witness: a text that differs from a catalog key only by its missing
\* final full stop got the generic plan.
C7_Witness ==
  /\ fn_call.fn = "get_hierarchical_plan"
  /\ fn_call.strategy_type = "Luncurkan kampanye retensi agresif"
  /\ fn_ret.Mayor = "Strategi Umum"
  /\ Len(fn_ret.Steps) = 2

\* C8: the objective is compared case-insensitively: for a label that is a
\* recognized objective in any letter case, the objective-specific points
\* of every segment, the ranking and the backward results are those of the
\* lower-case label.
C8_CaseInsensitiveObjective ==
  (Inferred /\ lower(tujuan_kampanye) \in SelectOptions) =>
    /\ \A cid \in 0..(n_clusters_chosen - 1) :
         hitung_skor_prioritas_cf(cluster_profiles[cid], harga_produk,
                                  tujuan_kampanye, df).poin_kriteria
         = hitung_skor_prioritas_cf(cluster_profiles[cid], harga_produk,
                                    lower(tujuan_kampanye), df).poin_kriteria
    /\ prioritas_klaster =
         RankedClusters(n_clusters_chosen, cluster_profiles, harga_produk,
                        lower(tujuan_kampanye), df, cluster_descriptions)
    /\ bc_results =
         BackwardChaining(n_clusters_chosen, lower(tujuan_kampanye),
                          cluster_profiles, df, cluster_descriptions)

\* C8, the part the code keeps: a run started from app.py, which lower-cases
\* the selected option, is scored, ranked and chained as for that option.
C8_ThroughApp ==
  (Inferred /\ view # "none") =>
    /\ tujuan_kampanye \in SelectOptions
    /\ prioritas_klaster =
         RankedClusters(n_clusters_chosen, cluster_profiles, harga_produk,
                        lower(tujuan_kampanye), df, cluster_descriptions)

\* KMeans left some id of 0..K-1 without a record.
DegenerateClustering ==
  df.Cluster # {} /\ df.Cluster # 0..(n_clusters_chosen - 1)

\* C9: when the fitted partition has fewer than K non-empty groups, the run
\* ends in a distinguished degenerate-clustering error: it returns no
\* bundle built on fewer than K profiles, and it does not abort with an
\* unrelated exception.
C9_DegenerateClusteringSurfaced ==
  DegenerateClustering =>
    /\ pc \in {"returned", "rendered"} => DOMAIN hasil = {"error"}
    /\ pc = "raised" => raised = "DegenerateClusteringError"

\* C9, what the code does: a degenerate partition always ends the run with
\* the KeyError of cluster_profiles.loc[i], before anything is scored.
C9_DegenerateRaisesKeyError ==
  DegenerateClustering =>
    /\ pc \in {"profile", "describe", "raised"}
    /\ pc = "raised" => raised = "KeyError"
    /\ prioritas_klaster = << >> /\ hasil = EmptyDict

\* C10: in every scorer call exactly one purchasing-power tier applies
\* (income > 10*price: +3, CF 0.9; else income > 5*price: +2, CF 0.7; else
\* +1, CF 0.4) and at most one spend tier (spend > 2*price: +2, CF 0.7; else
\* spend > price: +1, CF 0.4; else +0, CF 0.0); the comparisons are strict.
\* For an objective that contributes nothing the returned score is the sum
\* of the two.
C10_PriceTiers ==
  fn_call.fn = "hitung_skor_prioritas_cf" =>
    LET income == fn_call.profile.Annual_Income
        spend == fn_call.profile.Total_Spend
        price == fn_call.harga_produk
        daya == <<fn_ret.poin_daya_beli, fn_ret.cf_daya_beli>>
        belanja == <<fn_ret.poin_spend, fn_ret.cf_spend>>
    IN  /\ price >= 0
        /\ income > 10 * price => daya = <<3, Rat(9, 10)>>
        /\ (income <= 10 * price /\ income > 5 * price) => daya = <<2, Rat(7, 10)>>
        /\ income <= 5 * price => daya = <<1, Rat(4, 10)>>
        /\ spend > 2 * price => belanja = <<2, Rat(7, 10)>>
        /\ (spend <= 2 * price /\ spend > price) => belanja = <<1, Rat(4, 10)>>
        /\ spend <= price => belanja = <<0, Rat(0, 10)>>
        /\ fn_call.tujuan_kampanye = LabelLain =>
             fn_ret.skor = daya[1] + belanja[1]

\* C10 witness: income is exactly 10 times a positive price and spend exactly
\* twice the price; the call gave the lower tiers, +2 and +1.
C10_Witness ==
  /\ fn_call.fn = "hitung_skor_prioritas_cf"
  /\ fn_call.harga_produk > 0
  /\ fn_call.profile.Annual_Income = 10 * fn_call.harga_produk
  /\ fn_call.profile.Total_Spend = 2 * fn_call.harga_produk
  /\ fn_call.tujuan_kampanye = LabelLain
  /\ fn_ret.poin_daya_beli = 2 /\ fn_ret.poin_spend = 1
  /\ fn_ret.skor = 3

\* The condition of forward rule number r as the rule table states it: a
\* function of the segment profile and the dataset means only.
FcCondition(r, p) ==
  IF r = 1 THEN p.Annual_Income > 10000000 /\ p.Satisfaction_Score >= 4
  ELSE IF r = 2
  THEN p.Target_Churn
       /\ p.Last_Purchase_Days_Ago > DatasetMean.Last_Purchase_Days_Ago
  ELSE IF r = 3
  THEN p.Promotion_Response = "Merespons"
       /\ p.Num_of_Purchases < DatasetMean.Num_of_Purchases
  ELSE p.Average_Transaction_Amount < DatasetMean.Average_Transaction_Amount
       /\ p.Num_of_Purchases > DatasetMean.Num_of_Purchases

\* The sub-sequence of the rule list whose conditions hold on p, in
\* declaration order.
ExpectedFirings(p) ==
  LET holds(r) == FcCondition(r, p)
      idx == SelectSeq([r \in 1..Len(marketing_rules_fc) |-> r], holds)
  IN  [i \in 1..Len(idx) |-> marketing_rules_fc[idx[i]]]

\* The ranked list s in the order given by the permutation f of its positions.
Reordered(s, f) == [i \in 1..Len(s) |-> s[f[i]]]

\* C11: after the chaining step, forward_chaining_results has an entry for
\* every segment id in [0, K); the entry of a segment is the sub-sequence of
\* the rule list whose conditions hold on the profile of that segment, in
\* declaration order, a function of the profile alone and so not of the
\* product price or the campaign objective; and the entries are the same
\* under every other order of the priority ranking.
C11_ForwardChaining ==
  Inferred =>
    /\ DOMAIN fc_results = 0..(n_clusters_chosen - 1)
    /\ \A cid \in DOMAIN fc_results :
         fc_results[cid] = ExpectedFirings(cluster_profiles[cid])
    /\ results["forward_chaining_results"] = fc_results
    /\ \A f \in Permutations(DOMAIN prioritas_klaster) :
         ForwardChaining(Reordered(prioritas_klaster, f), cluster_profiles, df)
           = fc_results

\* C11 witness: a run whose ranking does not start with segment 0, where a
\* segment that is not ranked first fired two rules or more and another
\* segment fired none.
C11_Witness ==
  /\ Inferred
  /\ prioritas_klaster[1].Klaster_ID # 0
  /\ \E cid \in DOMAIN fc_results :
       /\ Len(fc_results[cid]) >= 2
       /\ prioritas_klaster[1].Klaster_ID # cid
  /\ \E cid \in DOMAIN fc_results : fc_results[cid] = << >>

\* x lies in [0, 1].
InZeroOne(x) == RLe(Zero, x) /\ RLe(x, One)

\* The calls of calculate_cf_combination made by the scorer call at hand.
ScorerCalls ==
  CombineCalls(fn_call.profile, fn_call.harga_produk, fn_call.tujuan_kampanye,
               NoDf)

\* C12: for every profile, price and objective label, every call that
\* hitung_skor_prioritas_cf makes to calculate_cf_combination (the two of
\* the cf_total line included) has both arguments in [0, 1], so that the
\* guard of the both-non-negative branch holds and the mixed-sign division
\* is never evaluated; the scorer returns without an exception, its combined
\* certainty factor lies in [0.4, 1.0] and its integer score in [1, 11].
C12_ScorerStaysNonNegative ==
  fn_call.fn = "hitung_skor_prioritas_cf" =>
    LET calls == ScorerCalls
    IN  /\ Len(calls) >= 2
        /\ \A i \in DOMAIN calls :
             /\ InZeroOne(calls[i].cf1) /\ InZeroOne(calls[i].cf2)
             /\ ~MixedSign(calls[i].cf1, calls[i].cf2)
        /\ fn_ret.raised = "none"
        /\ RLe(Rat(4, 10), fn_ret.cf_total) /\ RLe(fn_ret.cf_total, One)
        /\ fn_ret.skor \in 1..11

\* C12 witness: a scorer call that made five combinations (three criteria of
\* the loyalty branch, then the two of the cf_total line) and returned the
\* largest score with the largest certainty factor.
C12_Witness ==
  /\ fn_call.fn = "hitung_skor_prioritas_cf"
  /\ Len(ScorerCalls) = 5
  /\ fn_ret.raised = "none"
  /\ fn_ret.skor = 11
  /\ fn_ret.cf_total = One

\* The smallest score with the smallest certainty factor is returned too:
\* a call where only the two combinations of the cf_total line are made.
C12_LowestReturned ==
  /\ fn_call.fn = "hitung_skor_prioritas_cf"
  /\ Len(ScorerCalls) = 2
  /\ fn_ret.skor = 1
  /\ fn_ret.cf_total = Rat(4, 10)

====
